---- MODULE Spec2Model ----
(***************************************************************************)
(* Model of src/linscr.py (class DNBScraperSelenium): the quota crawl over *)
(* rotating WireGuard egress profiles, the processed-domain store and the  *)
(* per-profile driver / tunnel lifecycle.                                   *)
(*                                                                         *)
(* Strings are sequences of tokens.  The tokens are the pieces clean_url   *)
(* distinguishes: the scheme "http://", the prefix "www.", the slash "/",   *)
(* and host letters in lower and upper case.                                *)
(***************************************************************************)
EXTENDS Integers, Sequences, FiniteSets, TLC

\* ------------------------------------------------------------------ bounds

\* How many entries of WIREGUARD_CONFIG_FILES the model runs through.
NumProfiles == 2
\* Most company-profile links a directory page yields.
MaxLinks == 2
\* Most add_domain calls per canonical domain in the store harness.
MaxCalls == 3
\* Threads of the concurrent add_domain harness.
NumWorkers == 2
\* Largest quota of a target in the single-pass runs.
MaxQuota == 2
\* How many pages below the cap a single-pass target may start.
PageSpan == 3
\* Most MX records in one DNS answer.
MaxRecords == 2
MaxDiagConfigs == 3

\* ------------------------------------------------------- program constants

MAX_PAGES == 20
MAX_RETRIES == 3

\* ----------------------------------------------------------------- strings

Scheme == "http://"
Www == "www."
Slash == "/"

\* Python's None where a string is expected (a token no URL contains).
None == <<"<None>">>

\* Hrefs found on company profile pages (the field 'hero-company-link').
RawUrls ==
    { <<Scheme, Www, "a">>,      \* http://www.a
      <<"A", Slash>>,            \* A/
      <<Www, Www, "a">>,         \* www.www.a
      <<"b">>,                   \* b
      <<Scheme>> }               \* http://   (nothing but a scheme)

LowerTok(t) ==
    IF t = "A" THEN "a"
    ELSE IF t = "B" THEN "b"
    ELSE IF t = "OUTLOOK.COM" THEN "outlook.com"
    ELSE t

Lower(s) == [i \in 1..Len(s) |-> LowerTok(s[i])]

\* re.sub(r'^tok', '', s): removes one leading occurrence.
StripPrefix(s, tok) == IF Len(s) > 0 /\ s[1] = tok THEN Tail(s) ELSE s

RECURSIVE LStrip(_, _)
LStrip(s, tok) == IF Len(s) > 0 /\ s[1] = tok THEN LStrip(Tail(s), tok) ELSE s

RECURSIVE RStrip(_, _)
RStrip(s, tok) ==
    IF Len(s) > 0 /\ s[Len(s)] = tok
    THEN RStrip(SubSeq(s, 1, Len(s) - 1), tok)
    ELSE s

\* str.strip('/')
Strip(s, tok) == RStrip(LStrip(s, tok), tok)

clean_url(url) == Strip(StripPrefix(StripPrefix(Lower(url), Scheme), Www), Slash)

\* `if website:` -- neither None nor the empty string.
Truthy(x) == x # None /\ x # <<>>

\* ------------------------------------------------------------ domain store

\* is_domain_processed without normalising its argument.
is_domain_processed_raw(pd, domain) == domain \in pd

is_domain_processed(pd, domain) == clean_url(domain) \in pd

\* add_domain returning True from the except clause of lines 94-96.
add_domain_hiding_ioerror(pd, log, domain, io_ok) ==
    LET clean_domain == clean_url(domain) IN
    IF clean_domain \notin pd
    THEN [ processed |-> pd \cup {clean_domain},
           log       |-> IF io_ok THEN Append(log, clean_domain) ELSE log,
           ret       |-> TRUE ]
    ELSE [ processed |-> pd, log |-> log, ret |-> FALSE ]

\* add_domain(domain) on store pd and file microlinks.txt = log; io_ok says
\* whether open/write succeeded (IOError otherwise).
add_domain(pd, log, domain, io_ok) ==
    LET clean_domain == clean_url(domain) IN
    IF clean_domain \notin pd
    THEN [ processed |-> pd \cup {clean_domain},
           log       |-> IF io_ok THEN Append(log, clean_domain) ELSE log,
           ret       |-> io_ok ]
    ELSE [ processed |-> pd, log |-> log, ret |-> FALSE ]

\* ------------------------------------------------------------ page scraping

\* driver.get(company_page_url) raised (lines 249-257).
NavError == <<"<WebDriverException>">>

\* What visiting one company profile link gives: the href of the element
\* 'hero-company-link', None when the element or its href is missing, or
\* NavError when the navigation raised.
EntityOutcomes == RawUrls \cup {None, NavError}

\* get_company_website: the cleaned href, or None.
get_company_website(entity) ==
    IF entity \in {None, NavError} THEN None ELSE clean_url(entity)

RECURSIVE CollectWebsites(_)
CollectWebsites(entities) ==
    IF entities = <<>> THEN <<>>
    ELSE LET website == get_company_website(Head(entities)) IN
         IF Truthy(website)
         THEN <<website>> \o CollectWebsites(Tail(entities))
         ELSE CollectWebsites(Tail(entities))

\* scrape_company_websites with get_company_website letting its exception
\* through to the except clauses of lines 223-230.
scrape_company_websites_unguarded(fetch_ok, entities) ==
    IF fetch_ok /\ \A i \in 1..Len(entities) : entities[i] # NavError
    THEN CollectWebsites(entities)
    ELSE <<>>

\* scrape_company_websites: [] when the directory page fetch raises,
\* otherwise the websites of its company links, in order.
scrape_company_websites(fetch_ok, entities) ==
    IF fetch_ok THEN CollectWebsites(entities) ELSE <<>>

\* -------------------------------------------------------------------- state

VARIABLES
    urls_with_counts,         \* read_urls(): the parsed lines of urls.txt
    pc,                       \* where main() stands
    cfg,                      \* index of config_file in WIREGUARD_CONFIG_FILES
    current_vpn_config_file,  \* 0 for None, else the index of the active config
    wg,                       \* what wg-quick last did, for the config last attempted
    attempted,                \* history: the configs handed to bring_up_vpn, in order
    tunnels,                  \* history: how many WireGuard interfaces are up
    driver,                   \* self.driver is not None
    exc,                      \* an exception is propagating out of the try block
    raised_at,                \* history: the statement that raised it first
    tgt,                      \* index of (base_url, count, start_page) in the list
    ms_count,
    target_count,
    page_number,
    last_successful_page,
    retry_count,
    websites,                 \* the list the for loop of line 331 iterates
    widx,                     \* position of that loop
    failed_pages,
    processed_domains,
    microlinks,               \* lines appended to microlinks.txt
    add_returns,              \* history: per clean domain, what add_domain returned
    classified,               \* history: domains handed to check_mx_records so far
    last_mx,                  \* history: the domain looked up by the last step, or None
    lookup_failed,            \* history: that lookup timed out or failed otherwise
    lookup_ret,               \* history: what is_microsoft_affiliated returned for it
    left,                     \* history: per target, the locals its last pass ended
                              \* with, kept until the target's next pass starts
    report,                   \* what lines 349-354 wrote for the pass just finished
    fetched,                  \* history: page number of the last directory fetch
    fetch_raised,             \* history: that fetch raised inside scrape_company_websites
    had_links,                \* history: that fetch found at least one company link
    had_data,                 \* history: that fetch returned a non-empty list of websites
    failed_report,            \* the failed pages lines 356-358 wrote for the pass just finished
    backtracks,               \* history: per target, gap retries back to its start page
    wpc, wdom, wret,          \* threads of the concurrent add_domain harness
    classify_call,            \* classifier harness: the arguments, then the outcome
    scrape_call,              \* scraping harness: the arguments, then the websites
    diag                      \* the diagnostic script: its position and its wg-quick and test history

vars == << urls_with_counts, pc, cfg, current_vpn_config_file, wg, attempted,
           tunnels, driver, exc, raised_at, tgt, ms_count, target_count,
           page_number, last_successful_page, retry_count, websites, widx,
           failed_pages, processed_domains, microlinks, add_returns, classified,
           last_mx, lookup_failed, lookup_ret, left, report, fetched,
           fetch_raised, had_links, had_data, failed_report, backtracks,
           wpc, wdom, wret, classify_call, scrape_call, diag >>

crawl_vars == << ms_count, target_count, page_number, last_successful_page,
                 retry_count, websites, widx, failed_pages >>
store_vars == << processed_domains, microlinks, add_returns >>
lookup_vars == << classified, last_mx, lookup_failed, lookup_ret >>
vpn_vars == << cfg, current_vpn_config_file, wg, attempted, tunnels, driver >>
hist_vars == << left, report, fetched, fetch_raised, had_links, had_data,
               failed_report, backtracks >>
worker_vars == << wpc, wdom, wret >>

WIREGUARD_CONFIG_FILES == 1..NumProfiles
Workers == 1..NumWorkers

\* One parsed line of urls.txt; count is a string, numeric or not.
Target(numeric, count, start_page) ==
    [count_numeric |-> numeric, count |-> count, start_page |-> start_page]

\* Contents of urls.txt the full run is checked on.
UrlFiles ==
    { <<>>,
      << Target(TRUE, 2, MAX_PAGES - 1) >>,
      << Target(TRUE, 1, MAX_PAGES), Target(TRUE, 1, MAX_PAGES) >>,
      << Target(TRUE, 1, MAX_PAGES + 1), Target(FALSE, 0, 1) >> }

\* Contents of urls.txt a single pass is checked on: one target, any quota
\* up to MaxQuota, any start page among the last PageSpan pages and the
\* first page beyond the cap.
PassUrlFiles ==
    { << Target(TRUE, q, s) >> :
        q \in 0..MaxQuota, s \in (MAX_PAGES - PageSpan + 1)..(MAX_PAGES + 1) }

Count(f, k) == IF k \in DOMAIN f THEN f[k] ELSE 0
Returns(f, d) == IF d \in DOMAIN f THEN f[d] ELSE <<>>
Min(a, b) == IF a < b THEN a ELSE b

\* No direct call of the classifier or of the page scraper has been made, and
\* no diagnostic script runs.
NoCall == [stage |-> "none"]

\* The state __init__ leaves, with urls.txt as the input.
Construct ==
    /\ cfg = 1
    /\ current_vpn_config_file = 0
    /\ wg = "none"
    /\ attempted = <<>>
    /\ tunnels = 0
    /\ driver = FALSE
    /\ exc = FALSE
    /\ raised_at = "none"
    /\ tgt = 1
    /\ ms_count = 0
    /\ target_count = 0
    /\ page_number = 0
    /\ last_successful_page = 0
    /\ retry_count = 0
    /\ websites = <<>>
    /\ widx = 1
    /\ failed_pages = {}
    /\ processed_domains = {}
    /\ microlinks = <<>>
    /\ add_returns = <<>>
    /\ classified = {}
    /\ last_mx = None
    /\ lookup_failed = FALSE
    /\ lookup_ret = FALSE
    /\ left = <<>>
    /\ report = "none"
    /\ fetched = 0
    /\ fetch_raised = FALSE
    /\ had_links = FALSE
    /\ had_data = FALSE
    /\ failed_report = {}
    /\ backtracks = <<>>
    /\ wpc = [w \in Workers |-> "idle"]
    /\ wdom = [w \in Workers |-> None]
    /\ wret = [w \in Workers |-> "none"]
    /\ classify_call = NoCall
    /\ scrape_call = NoCall
    /\ diag = NoCall

Init ==
    /\ urls_with_counts \in UrlFiles
    /\ pc = "main"
    /\ Construct

\* ------------------------------------------------------------ main: profiles

\* Line 268 never taking the early return.
NoUrlsIgnored(urls) == FALSE

\* Line 268: `if not urls_with_counts`.
NoUrls(urls) == urls = <<>>

\* Lines 267-270: no targets, no run.
ReadUrls ==
    /\ pc = "main"
    /\ pc' = IF NoUrls(urls_with_counts) THEN "done" ELSE "profile"
    /\ UNCHANGED << urls_with_counts, exc, raised_at, tgt >>
    /\ UNCHANGED << vpn_vars, crawl_vars, store_vars, lookup_vars,
                    hist_vars, worker_vars, classify_call, scrape_call, diag >>

\* Line 286 falling through to initialize_driver instead of `continue`.
NextProfilePcNoSkip(c) == "init_driver"

\* The for statement of line 279 moving on from config c.
NextProfilePc(c) == IF c + 1 > NumProfiles THEN "done" ELSE "profile"

\* bring_up_vpn(config_file) and lines 283-286.
BringUpVpn ==
    /\ pc = "profile"
    /\ \E up_ok \in BOOLEAN :
        IF up_ok
        THEN /\ current_vpn_config_file' = cfg
             /\ wg' = "up"
             /\ tunnels' = tunnels + 1
             /\ pc' = "init_driver"
             /\ cfg' = cfg
        ELSE /\ wg' = "up_failed"
             /\ pc' = NextProfilePc(cfg)
             /\ cfg' = cfg + 1
             /\ UNCHANGED << current_vpn_config_file, tunnels >>
    /\ attempted' = Append(attempted, cfg)
    /\ UNCHANGED << urls_with_counts, driver, exc, raised_at, tgt >>
    /\ UNCHANGED << crawl_vars, store_vars, lookup_vars, hist_vars,
                    worker_vars, classify_call, scrape_call, diag >>

\* initialize_driver() and lines 289-294 (bring_down_vpn is the next step).
InitializeDriver ==
    /\ pc = "init_driver"
    /\ \E init_ok \in BOOLEAN :
        /\ driver' = init_ok
        /\ pc' = IF init_ok THEN "probe" ELSE "down"
    /\ UNCHANGED << urls_with_counts, cfg, current_vpn_config_file, wg, attempted,
                    tunnels, exc, raised_at, tgt >>
    /\ UNCHANGED << crawl_vars, store_vars, lookup_vars, hist_vars,
                    worker_vars, classify_call, scrape_call, diag >>

\* Lines 297-301: the IP probe; driver.get may raise.
Probe ==
    /\ pc = "probe"
    /\ \E probe_ok \in BOOLEAN :
        /\ exc' = ~probe_ok
        /\ raised_at' = IF probe_ok THEN raised_at ELSE "probe"
        /\ pc' = IF probe_ok THEN "target" ELSE "finally"
    /\ tgt' = 1
    /\ UNCHANGED << urls_with_counts >>
    /\ UNCHANGED << vpn_vars, crawl_vars, store_vars, lookup_vars,
                    hist_vars, worker_vars, classify_call, scrape_call, diag >>

\* Line 192 missing: self.driver keeps the driver that was quit.
driver_kept_after_quit(d) == d

\* Line 192: self.driver = None.
driver_after_quit(d) == FALSE

\* quit_driver() in the finally block: driver.quit() may raise, and then
\* bring_down_vpn() of line 364 is not reached.
QuitDriver ==
    /\ pc = "finally"
    /\ IF driver
       THEN \E quit_ok \in BOOLEAN :
              IF quit_ok
              THEN /\ driver' = driver_after_quit(driver)
                   /\ pc' = "down"
                   /\ UNCHANGED << exc, raised_at >>
              ELSE /\ driver' = driver
                   /\ pc' = "aborted"
                   /\ exc' = TRUE
                   /\ raised_at' = IF exc THEN raised_at ELSE "quit_driver"
       ELSE /\ pc' = "down"
            /\ UNCHANGED << driver, exc, raised_at >>
    /\ UNCHANGED << urls_with_counts, cfg, current_vpn_config_file, wg, attempted,
                    tunnels, tgt >>
    /\ UNCHANGED << crawl_vars, store_vars, lookup_vars, hist_vars,
                    worker_vars, classify_call, scrape_call, diag >>

\* What `wg-quick down` can do (lines 167-172): return 0 with the interface
\* removed, or return nonzero, with the interface still up or gone.
WgQuickDown ==
    { [returncode |-> 0, removed |-> TRUE],
      [returncode |-> 1, removed |-> FALSE],
      [returncode |-> 1, removed |-> TRUE] }

\* bring_down_vpn() at line 293 or 364, then the end of the loop body: the
\* pending exception leaves main, otherwise the next config is taken.
BringDownVpn ==
    /\ pc = "down"
    /\ IF current_vpn_config_file = 0
       THEN UNCHANGED << current_vpn_config_file, wg, tunnels >>
       ELSE /\ \E down \in WgQuickDown :
                /\ wg' = IF down.returncode = 0 THEN "down" ELSE "down_failed"
                /\ tunnels' = IF down.removed THEN tunnels - 1 ELSE tunnels
            /\ current_vpn_config_file' = 0
    /\ IF exc
       THEN /\ pc' = "aborted"
            /\ cfg' = cfg
       ELSE /\ pc' = NextProfilePc(cfg)
            /\ cfg' = cfg + 1
    /\ UNCHANGED << urls_with_counts, attempted, driver, exc, raised_at, tgt >>
    /\ UNCHANGED << crawl_vars, store_vars, lookup_vars, hist_vars,
                    worker_vars, classify_call, scrape_call, diag >>

\* ------------------------------------------------------------- classification

Dot == "."

\* Entries of self.microsoft_patterns; each is one token of a host name.
microsoft_patterns == { <<"outlook.com">>, <<"cloudapp.net">> }

\* Exchange names as str(mx.exchange) writes them (absolute, trailing dot).
MxHosts ==
    { <<"mx", Dot, "outlook.com", Dot>>,     \* mx.outlook.com.    ends with .pattern
      <<"OUTLOOK.COM", Dot>>,                \* OUTLOOK.COM.       the pattern, upper case
      <<"outlook.com", Dot, "evil", Dot>>,   \* outlook.com.evil.  pattern, then more labels
      <<"mx", "cloudapp.net", Dot>>,         \* mxcloudapp.net.    no dot before the pattern
      <<"mx", Dot, "evil", Dot>> }           \* mx.evil.           no pattern

\* Exceptions resolver.resolve raises; "Exception" is any other than the three
\* named ones (no name servers, a malformed name, ...).
DnsExceptions == {"NoAnswer", "NXDOMAIN", "Timeout", "Exception"}

\* What resolver.resolve(domain, 'MX') can do: an answer of one to MaxRecords
\* records, or an exception.
MxOutcomes ==
    { [kind |-> "answer", records |-> rs] :
        rs \in { r \in SUBSET MxHosts : Cardinality(r) \in 1..MaxRecords } }
    \cup { [kind |-> e, records |-> {}] : e \in DnsExceptions }

\* The outcomes for one argument: None and the empty string are no host
\* name, and resolve only raises for them.
ResolveOutcomes(domain) ==
    IF Truthy(domain) THEN MxOutcomes ELSE { mx \in MxOutcomes : mx.kind # "answer" }

\* The outcome of a call: it returns ret, or raises the exception named.
Return(v) == [raised |-> "none", ret |-> v]
Raise(e) == [raised |-> e, ret |-> FALSE]

\* `p in s` on strings.
Contains(s, p) ==
    \E i \in 1..(Len(s) - Len(p) + 1) : SubSeq(s, i, i + Len(p) - 1) = p

\* s.endswith(p)
EndsWith(s, p) ==
    Len(s) >= Len(p) /\ SubSeq(s, Len(s) - Len(p) + 1, Len(s)) = p

\* Line 108: str(mx.exchange).rstrip('.').lower()
mx_string(exchange) == Lower(RStrip(exchange, Dot))

\* Line 112: `pattern in mx or mx.endswith('.' + pattern)`.
PatternMatches(mx, pattern) ==
    Contains(mx, pattern) \/ EndsWith(mx, <<Dot>> \o pattern)

\* Lines 101-120: the body of the try statement of check_mx_records.
check_mx_records_body(mx) ==
    IF mx.kind = "answer"
    THEN Return(\E exchange \in mx.records : \E pattern \in microsoft_patterns :
                    PatternMatches(mx_string(exchange), pattern))
    ELSE Raise(mx.kind)

\* Lines 121-129 alone, without the final `except Exception`.
CheckMxCaughtNamed == {"NoAnswer", "NXDOMAIN", "Timeout"}

\* Lines 121-132: the exceptions the except clauses of check_mx_records catch.
CheckMxCaught == {"NoAnswer", "NXDOMAIN", "Timeout", "Exception"}

\* An except clause for Timeout that reports an affiliated domain.
CaughtReturnAccepting(e) == e = "Timeout"

\* Lines 123, 126, 129, 132: every except clause returns False.
CaughtReturn(e) == FALSE

\* check_mx_records(domain) under lookup outcome mx of resolver.resolve.
check_mx_records(mx) ==
    LET r == check_mx_records_body(mx) IN
    IF r.raised \in CheckMxCaught THEN Return(CaughtReturn(r.raised)) ELSE r

\* is_microsoft_affiliated(website) under lookup outcome mx: clean_url(None)
\* raises AttributeError; `except Exception` catches whatever is raised.
is_microsoft_affiliated(website, mx) ==
    LET r == IF website = None THEN Raise("AttributeError") ELSE check_mx_records(mx)
    IN IF r.raised # "none" THEN Return(FALSE) ELSE r

\* Lines 127-132: the lookup timed out or failed in another way.
LookupFailed(mx) == mx.kind \in {"Timeout", "Exception"}

\* The websites a directory page can list: the cleaned hrefs.
Websites == { clean_url(url) : url \in RawUrls }

\* For each website, everything is_microsoft_affiliated(website) can do.
LookupTable ==
    [ website \in Websites |->
        { [outcome |-> is_microsoft_affiliated(website, mx), failed |-> LookupFailed(mx)] :
            mx \in ResolveOutcomes(clean_url(website)) } ]

\* Everything the call is_microsoft_affiliated(website) of line 333 can do.
LookupResults(website) == LookupTable[website]

\* --------------------------------------------------------- main: one target

SeqsUpTo(S, n) == UNION { [1..k -> S] : k \in 0..n }

\* Every list scrape_company_websites can return when the fetch raises or
\* not: each of up to MaxLinks company links gives an href or nothing.
PageResultsTable ==
    [ fetch_ok \in BOOLEAN |->
        { [ websites |-> scrape_company_websites(fetch_ok, entities),
            links    |-> fetch_ok /\ entities # <<>> ] :
            entities \in SeqsUpTo(EntityOutcomes, MaxLinks) } ]

\* What scrape_company_websites can do for one outcome of the fetch: the list
\* it returns, and whether line 208 found any company link.
PageResults(fetch_ok) == PageResultsTable[fetch_ok]

\* Line 343 left out.
failed_pages_keep(fp, page) == fp

\* Line 343: self.failed_pages.add(page_number).
failed_pages_add(fp, page) == fp \cup {page}

\* Line 313 stopping one page short of the cap.
LoopGuardShort == ms_count < target_count /\ page_number < MAX_PAGES

\* The while condition of line 313.
LoopGuard == ms_count < target_count /\ page_number <= MAX_PAGES

\* Lines 338 and 345 testing for more than the quota.
QuotaMetStrict(count, target) == count > target

\* Lines 338 and 345: `if ms_count >= target_count: break`.
QuotaMet(count, target) == count >= target

\* Line 325 forgetting to count the retry.
NextRetryStuck(retries) == retries

\* Line 325: retry_count += 1.
NextRetry(retries) == retries + 1

\* Line 321 allowing one retry more than MAX_RETRIES.
ShouldBacktrackExtraRetry(page, last, retries) ==
    page > last + 1 /\ retries <= MAX_RETRIES

\* Line 321 comparing with last_successful_page instead of the page after it.
ShouldBacktrackOffByOne(page, last, retries) ==
    page > last /\ retries < MAX_RETRIES

\* Line 321: data on a page beyond the one after the last successful page.
ShouldBacktrack(page, last, retries) ==
    page > last + 1 /\ retries < MAX_RETRIES

\* Line 324 going back to the last successful page itself.
BacktrackPageRepeat(last) == last

\* Line 324: page_number = last_successful_page + 1.
BacktrackPage(last) == last + 1

\* Lines 305-311.  ms_count is assigned before int(count) can raise.  The
\* record of the target's previous pass is dropped once the new pass starts.
StartTarget ==
    /\ pc = "target"
    /\ LET t == urls_with_counts[tgt] IN
       /\ ms_count' = 0
       /\ IF t.count_numeric
          THEN /\ target_count' = t.count
               /\ page_number' = t.start_page
               /\ last_successful_page' = t.start_page - 1
               /\ retry_count' = 0
               /\ pc' = "loop"
               /\ UNCHANGED << exc, raised_at >>
          ELSE /\ pc' = "finally"
               /\ exc' = TRUE
               /\ raised_at' = "target"
               /\ UNCHANGED << target_count, page_number, last_successful_page,
                               retry_count >>
    /\ report' = "none"
    /\ fetched' = 0
    /\ fetch_raised' = FALSE
    /\ had_links' = FALSE
    /\ had_data' = FALSE
    /\ failed_report' = {}
    /\ last_mx' = None
    /\ lookup_failed' = FALSE
    /\ lookup_ret' = FALSE
    /\ left' = [t \in DOMAIN left \ {tgt} |-> left[t]]
    /\ UNCHANGED << urls_with_counts, tgt, websites, widx, failed_pages,
                    classified, backtracks >>
    /\ UNCHANGED << vpn_vars, store_vars, worker_vars,
                    classify_call, scrape_call, diag >>

\* Lines 349-360: the loop is over; report, clear failed_pages, next target,
\* and after the last target the finally block.
FinishTarget ==
    /\ pc = "loop"
    /\ ~LoopGuard
    /\ report' = IF ms_count < target_count THEN "Exhausted" ELSE "Satisfied"
    /\ left' = (tgt :> [done |-> TRUE, ms_count |-> ms_count,
                        page_number |-> page_number,
                        last_successful_page |-> last_successful_page,
                        retry_count |-> retry_count]) @@ left
    /\ failed_pages' = {}
    /\ tgt' = tgt + 1
    /\ pc' = IF tgt + 1 > Len(urls_with_counts) THEN "finally" ELSE "target"
    /\ failed_report' = failed_pages
    /\ fetch_raised' = FALSE
    /\ had_links' = FALSE
    /\ had_data' = FALSE
    /\ last_mx' = None
    /\ lookup_failed' = FALSE
    /\ lookup_ret' = FALSE
    /\ UNCHANGED << urls_with_counts, exc, raised_at, ms_count, target_count, page_number,
                    last_successful_page, retry_count, websites, widx,
                    classified, fetched, backtracks >>
    /\ UNCHANGED << vpn_vars, store_vars, worker_vars,
                    classify_call, scrape_call, diag >>

\* Lines 313-329 and 340-347: fetch the directory page; on data either go
\* back to the first missed page or start the for loop over the websites;
\* without data record the page as failed and advance.
ScrapePage ==
    /\ pc = "loop"
    /\ LoopGuard
    /\ \E fetch_ok \in BOOLEAN : \E page \in PageResults(fetch_ok) :
       LET found == page.websites IN
        /\ fetch_raised' = ~fetch_ok
        /\ had_links' = page.links
        /\ had_data' = (found # <<>>)
        /\ IF found # <<>>
           THEN IF ShouldBacktrack(page_number, last_successful_page, retry_count)
                THEN /\ page_number' = BacktrackPage(last_successful_page)
                     /\ retry_count' = NextRetry(retry_count)
                     /\ backtracks' =
                           IF last_successful_page + 1 = urls_with_counts[tgt].start_page
                           THEN (tgt :> Min(Count(backtracks, tgt) + 1, MAX_RETRIES + 1))
                                @@ backtracks
                           ELSE backtracks
                     /\ pc' = "loop"
                     /\ UNCHANGED << last_successful_page, websites, widx, failed_pages >>
                ELSE /\ last_successful_page' = page_number
                     /\ retry_count' = 0
                     /\ websites' = found
                     /\ widx' = 1
                     /\ pc' = "sites"
                     /\ UNCHANGED << page_number, failed_pages, backtracks >>
           ELSE /\ failed_pages' = failed_pages_add(failed_pages, page_number)
                /\ page_number' = page_number + 1
                /\ pc' = "loop"
                /\ UNCHANGED << last_successful_page, retry_count, websites, widx,
                                backtracks >>
    /\ fetched' = page_number
    /\ last_mx' = None
    /\ lookup_failed' = FALSE
    /\ lookup_ret' = FALSE
    /\ UNCHANGED << urls_with_counts, exc, raised_at, tgt, ms_count, target_count,
                    classified, left, report, failed_report >>
    /\ UNCHANGED << vpn_vars, store_vars, worker_vars,
                    classify_call, scrape_call, diag >>

\* One iteration of the for loop of lines 331-339 and, when it is the last
\* (the list is exhausted, or the break of line 339), lines 345-347.  The
\* list and its index are dead after the loop and are reset.
ProcessWebsite ==
    /\ pc = "sites"
    /\ \E res \in LookupResults(websites[widx]) :
       \E io_ok \in (IF res.outcome.ret THEN BOOLEAN ELSE {TRUE}) :
        LET website == websites[widx]
            lookup == Truthy(website) /\ ~is_domain_processed(processed_domains, website)
            raised == lookup /\ res.outcome.raised # "none"
            affiliated == lookup /\ res.outcome.ret
            r == add_domain(processed_domains, microlinks, website, io_ok)
            clean_domain == clean_url(website)
            ms1 == IF affiliated /\ r.ret THEN ms_count + 1 ELSE ms_count
            brk == affiliated /\ QuotaMet(ms1, target_count)
        IN
        /\ classified' = IF lookup THEN classified \cup {clean_domain} ELSE classified
        /\ last_mx' = IF lookup THEN clean_domain ELSE None
        /\ lookup_failed' = (lookup /\ res.failed)
        /\ lookup_ret' = affiliated
        /\ IF affiliated
           THEN /\ processed_domains' = r.processed
                /\ microlinks' = r.log
                /\ add_returns' = (clean_domain :>
                                     Append(Returns(add_returns, clean_domain), r.ret))
                                  @@ add_returns
           ELSE UNCHANGED << processed_domains, microlinks, add_returns >>
        /\ ms_count' = ms1
        /\ IF raised
           THEN /\ pc' = "finally"
                /\ exc' = TRUE
                /\ raised_at' = "target"
                /\ UNCHANGED << page_number, websites, widx >>
           ELSE /\ UNCHANGED << exc, raised_at >>
                /\ IF brk \/ widx = Len(websites)
                   THEN /\ page_number' = IF ms1 >= target_count
                                          THEN page_number ELSE page_number + 1
                        /\ websites' = <<>>
                        /\ widx' = 1
                        /\ pc' = "loop"
                   ELSE /\ widx' = widx + 1
                        /\ pc' = "sites"
                        /\ UNCHANGED << page_number, websites >>
    /\ UNCHANGED << urls_with_counts, tgt, target_count, last_successful_page,
                    retry_count, failed_pages >>
    /\ UNCHANGED << vpn_vars, hist_vars, worker_vars,
                    classify_call, scrape_call, diag >>

Next ==
    \/ ReadUrls
    \/ BringUpVpn
    \/ InitializeDriver
    \/ Probe
    \/ StartTarget
    \/ ScrapePage
    \/ ProcessWebsite
    \/ FinishTarget
    \/ QuitDriver
    \/ BringDownVpn

Spec == Init /\ [][Next]_vars

\* ------------------------------------------------------------ a single pass

\* The state main() is in when every config but the last failed to come up
\* and the last one came up, its driver started and the probe returned:
\* the first target is about to be processed, the store is still empty.
\* (urls.txt and microlinks.txt are set by the specification.)
PassStart ==
    /\ pc = "target"
    /\ cfg = NumProfiles
    /\ current_vpn_config_file = NumProfiles
    /\ wg = "up"
    /\ attempted = [i \in 1..NumProfiles |-> i]
    /\ tunnels = 1
    /\ driver = TRUE
    /\ exc = FALSE
    /\ raised_at = "none"
    /\ tgt = 1
    /\ ms_count = 0
    /\ target_count = 0
    /\ page_number = 0
    /\ last_successful_page = 0
    /\ retry_count = 0
    /\ websites = <<>>
    /\ widx = 1
    /\ failed_pages = {}
    /\ processed_domains = {}
    /\ add_returns = <<>>
    /\ classified = {}
    /\ last_mx = None
    /\ lookup_failed = FALSE
    /\ lookup_ret = FALSE
    /\ left = <<>>
    /\ report = "none"
    /\ fetched = 0
    /\ fetch_raised = FALSE
    /\ had_links = FALSE
    /\ had_data = FALSE
    /\ failed_report = {}
    /\ backtracks = <<>>
    /\ wpc = [w \in Workers |-> "idle"]
    /\ wdom = [w \in Workers |-> None]
    /\ wret = [w \in Workers |-> "none"]
    /\ classify_call = NoCall
    /\ scrape_call = NoCall
    /\ diag = NoCall

\* The first run: microlinks.txt does not exist yet.
InitPass ==
    /\ urls_with_counts \in PassUrlFiles
    /\ microlinks = <<>>
    /\ PassStart

NextPass ==
    \/ StartTarget
    \/ ScrapePage
    \/ ProcessWebsite
    \/ FinishTarget
    \/ QuitDriver
    \/ BringDownVpn

SpecPass == InitPass /\ [][NextPass]_vars

\* main() is one sequential thread: whenever it has a next statement it
\* executes it.
SpecPassFair == SpecPass /\ WF_vars(NextPass)

\* ------------------------------------------------- a pass of a later run

\* microlinks.txt as an earlier run of the program left it: add_domain opens
\* it in append mode, so its lines outlive the process.
PriorLogs == { << <<"a">> >>, << <<"b">>, <<"a">> >> }

\* Contents of urls.txt of the later run: one target starting at the last page.
RerunUrlFiles == { << Target(TRUE, q, MAX_PAGES) >> : q \in 1..MaxQuota }

\* The same point of main() as in InitPass, in a run started with the file
\* of an earlier run in place: __init__ sets processed_domains to the empty
\* set (line 31) and reads no file.
InitRerun ==
    /\ urls_with_counts \in RerunUrlFiles
    /\ microlinks \in PriorLogs
    /\ PassStart

SpecRerun == InitRerun /\ [][NextPass]_vars

\* ------------------------------------------------- harness: add_domain alone

\* Strings handed to add_domain by a caller of the store.
StoreInputs == RawUrls \cup {<<>>}

InitStore ==
    /\ urls_with_counts = <<>>
    /\ pc = "store"
    /\ Construct

\* One call add_domain(domain), after the calls made so far.
AddDomainCall ==
    /\ pc = "store"
    /\ \E domain \in StoreInputs, io_ok \in BOOLEAN :
        LET clean_domain == clean_url(domain)
            r == add_domain(processed_domains, microlinks, domain, io_ok)
        IN
        /\ Len(Returns(add_returns, clean_domain)) < MaxCalls
        /\ processed_domains' = r.processed
        /\ microlinks' = r.log
        /\ add_returns' = (clean_domain :>
                             Append(Returns(add_returns, clean_domain), r.ret))
                          @@ add_returns
    /\ UNCHANGED << urls_with_counts, pc, exc, raised_at, tgt >>
    /\ UNCHANGED << vpn_vars, crawl_vars, lookup_vars, hist_vars,
                    worker_vars, classify_call, scrape_call, diag >>

NextStore == AddDomainCall

SpecStore == InitStore /\ [][NextStore]_vars

\* ------------------------------------- harness: add_domain from several threads

\* add_domain has no lock; each thread runs its statements one at a time.
InitConc ==
    /\ urls_with_counts = <<>>
    /\ pc = "threads"
    /\ Construct

\* Line 87: the call, and clean_domain = self.clean_url(domain).
WorkerCall(w) ==
    /\ pc = "threads"
    /\ wpc[w] = "idle"
    /\ \E domain \in RawUrls :
        wdom' = [wdom EXCEPT ![w] = clean_url(domain)]
    /\ wpc' = [wpc EXCEPT ![w] = "test"]
    /\ UNCHANGED << urls_with_counts, pc, exc, raised_at, tgt, wret >>
    /\ UNCHANGED << vpn_vars, crawl_vars, store_vars, lookup_vars,
                    hist_vars, classify_call, scrape_call, diag >>

\* Line 88, and line 97 when the domain is already in the set.
WorkerTest(w) ==
    /\ pc = "threads"
    /\ wpc[w] = "test"
    /\ IF wdom[w] \notin processed_domains
       THEN /\ wpc' = [wpc EXCEPT ![w] = "add"]
            /\ wret' = wret
       ELSE /\ wpc' = [wpc EXCEPT ![w] = "done"]
            /\ wret' = [wret EXCEPT ![w] = "false_present"]
    /\ UNCHANGED << urls_with_counts, pc, exc, raised_at, tgt, wdom >>
    /\ UNCHANGED << vpn_vars, crawl_vars, store_vars, lookup_vars,
                    hist_vars, classify_call, scrape_call, diag >>

\* Line 89.
WorkerAdd(w) ==
    /\ pc = "threads"
    /\ wpc[w] = "add"
    /\ processed_domains' = processed_domains \cup {wdom[w]}
    /\ wpc' = [wpc EXCEPT ![w] = "write"]
    /\ UNCHANGED << urls_with_counts, pc, exc, raised_at, tgt,
                    wdom, wret, microlinks, add_returns >>
    /\ UNCHANGED << vpn_vars, crawl_vars, lookup_vars, hist_vars,
                    classify_call, scrape_call, diag >>

\* Lines 90-96: append and return True, or IOError and return False.
WorkerWrite(w) ==
    /\ pc = "threads"
    /\ wpc[w] = "write"
    /\ \E io_ok \in BOOLEAN :
        IF io_ok
        THEN /\ microlinks' = Append(microlinks, wdom[w])
             /\ wret' = [wret EXCEPT ![w] = "true"]
        ELSE /\ microlinks' = microlinks
             /\ wret' = [wret EXCEPT ![w] = "false_ioerror"]
    /\ wpc' = [wpc EXCEPT ![w] = "done"]
    /\ UNCHANGED << urls_with_counts, pc, exc, raised_at, tgt,
                    wdom, processed_domains, add_returns >>
    /\ UNCHANGED << vpn_vars, crawl_vars, lookup_vars, hist_vars,
                    classify_call, scrape_call, diag >>

NextConc ==
    \E w \in Workers :
        \/ WorkerCall(w)
        \/ WorkerTest(w)
        \/ WorkerAdd(w)
        \/ WorkerWrite(w)

SpecConc == InitConc /\ [][NextConc]_vars

\* ------------------------------------------------- harness: the classifier alone

\* Arguments a caller can hand to the classifier: hrefs as found, the empty
\* string and None.
ClassifyInputs == RawUrls \cup {<<>>, None}

ClassifyFunctions == {"check_mx_records", "is_microsoft_affiliated"}

InitClassify ==
    /\ urls_with_counts = <<>>
    /\ pc = "classify"
    /\ Construct

\* One call check_mx_records(domain) or is_microsoft_affiliated(website),
\* under one outcome of the DNS query it makes.
ClassifyCall ==
    /\ pc = "classify"
    /\ \E fn \in ClassifyFunctions, arg \in ClassifyInputs :
       \E mx \in ResolveOutcomes(IF fn = "check_mx_records" \/ arg = None
                                 THEN arg ELSE clean_url(arg)) :
        classify_call' =
            [ stage |-> "done", fn |-> fn, arg |-> arg, mx |-> mx,
              outcome |-> IF fn = "check_mx_records"
                          THEN check_mx_records(mx)
                          ELSE is_microsoft_affiliated(arg, mx) ]
    /\ UNCHANGED << urls_with_counts, pc, exc, raised_at, tgt >>
    /\ UNCHANGED << vpn_vars, crawl_vars, store_vars, lookup_vars,
                    hist_vars, worker_vars, scrape_call, diag >>

NextClassify == ClassifyCall

SpecClassify == InitClassify /\ [][NextClassify]_vars

\* ------------------------------------------------------ the scraper harness

InitScrape ==
    /\ urls_with_counts = <<>>
    /\ pc = "scrape"
    /\ Construct

\* One call scrape_company_websites(url): the directory page loads or the
\* navigation raises, and each company link of the page has one outcome.
ScrapeCall ==
    /\ pc = "scrape"
    /\ \E fetch_ok \in BOOLEAN, entities \in SeqsUpTo(EntityOutcomes, MaxLinks) :
        scrape_call' =
            [ stage |-> "done", fetch_ok |-> fetch_ok, entities |-> entities,
              websites |-> scrape_company_websites(fetch_ok, entities) ]
    /\ UNCHANGED << urls_with_counts, pc, exc, raised_at, tgt, classify_call, diag >>
    /\ UNCHANGED << vpn_vars, crawl_vars, store_vars, lookup_vars,
                    hist_vars, worker_vars >>

NextScrape == ScrapeCall

SpecScrape == InitScrape /\ [][NextScrape]_vars

\* ----------------------------------------------------- the diagnostic scripts

\* troubleshoot_dnb_playwright and run_connectivity_test: both loop over a
\* list of WireGuard configs, bring each one up, test through it, bring it
\* down.
DiagScripts == {"dnb_playwright_troubleshoot", "vpn_test_script"}

DiagConfigs == 1..MaxDiagConfigs

\* One wg-quick invocation or one test, as the script's history keeps it.
DiagEvent(cmd, config, ok) == [cmd |-> cmd, cfg |-> config, ok |-> ok]

\* The for statement moving on from config c.
DiagNextPc(c) == IF c + 1 > MaxDiagConfigs THEN "done" ELSE "up"

\* The bring-down placed at the end of the try body instead of after the
\* handlers: a test that raised goes on to the next config.
DiagAfterTestNoDownOnError(c, ok) == IF ok THEN "down" ELSE DiagNextPc(c)

\* After the test, whether it raised or not, the script brings the tunnel
\* down: the finally clause of dnb_playwright_troubleshoot.py, the code after
\* the except clauses in vpn_test_script.py.
DiagAfterTest(c, ok) == "down"

InitDiag ==
    /\ urls_with_counts = <<>>
    /\ pc = "diag"
    /\ Construct

\* One of the two scripts is started.
DiagStart ==
    /\ pc = "diag"
    /\ diag = NoCall
    /\ \E script \in DiagScripts :
        diag' = [stage |-> "run", script |-> script, pc |-> "up", cfg |-> 1,
                 log |-> <<>>]
    /\ UNCHANGED << urls_with_counts, pc, exc, raised_at, tgt, classify_call,
                    scrape_call >>
    /\ UNCHANGED << vpn_vars, crawl_vars, store_vars, lookup_vars,
                    hist_vars, worker_vars >>

\* `wg-quick up` for the next config; on a nonzero return code the config is
\* skipped with `continue`.
DiagBringUp ==
    /\ pc = "diag"
    /\ diag.stage = "run"
    /\ diag.pc = "up"
    /\ \E up_ok \in BOOLEAN :
        diag' = [diag EXCEPT
                   !.log = Append(@, DiagEvent("up", diag.cfg, up_ok)),
                   !.pc  = IF up_ok THEN "test" ELSE DiagNextPc(diag.cfg),
                   !.cfg = IF up_ok THEN @ ELSE @ + 1]
    /\ UNCHANGED << urls_with_counts, pc, exc, raised_at, tgt, classify_call,
                    scrape_call >>
    /\ UNCHANGED << vpn_vars, crawl_vars, store_vars, lookup_vars,
                    hist_vars, worker_vars >>

\* The browser test or the API request: it completes, or it raises and an
\* except clause of the script handles the exception.
DiagTest ==
    /\ pc = "diag"
    /\ diag.stage = "run"
    /\ diag.pc = "test"
    /\ \E test_ok \in BOOLEAN :
        LET next == DiagAfterTest(diag.cfg, test_ok) IN
        diag' = [diag EXCEPT
                   !.log = Append(@, DiagEvent("test", diag.cfg, test_ok)),
                   !.pc  = next,
                   !.cfg = IF next = "down" THEN @ ELSE @ + 1]
    /\ UNCHANGED << urls_with_counts, pc, exc, raised_at, tgt, classify_call,
                    scrape_call >>
    /\ UNCHANGED << vpn_vars, crawl_vars, store_vars, lookup_vars,
                    hist_vars, worker_vars >>

\* `wg-quick down` for the config just tested, whatever it returns, then the
\* next config.
DiagBringDown ==
    /\ pc = "diag"
    /\ diag.stage = "run"
    /\ diag.pc = "down"
    /\ \E down_ok \in BOOLEAN :
        diag' = [diag EXCEPT
                   !.log = Append(@, DiagEvent("down", diag.cfg, down_ok)),
                   !.pc  = DiagNextPc(diag.cfg),
                   !.cfg = @ + 1]
    /\ UNCHANGED << urls_with_counts, pc, exc, raised_at, tgt, classify_call,
                    scrape_call >>
    /\ UNCHANGED << vpn_vars, crawl_vars, store_vars, lookup_vars,
                    hist_vars, worker_vars >>

NextDiag ==
    \/ DiagStart
    \/ DiagBringUp
    \/ DiagTest
    \/ DiagBringDown

SpecDiag == InitDiag /\ [][NextDiag]_vars

\* ------------------------------------------------------------------- claims

InLoop == pc \in {"loop", "sites"}

\* How often domain d occurs in the sequence log.
RECURSIVE Occurrences(_, _)
Occurrences(log, d) ==
    IF log = <<>> THEN 0
    ELSE (IF Head(log) = d THEN 1 ELSE 0) + Occurrences(Tail(log), d)

\* C1: whenever the next config is about to be attempted or the run has
\* ended (normally or by an exception), bring_down_vpn has been executed for
\* the config attempted last, if its bring_up_vpn succeeded: wg-quick's last
\* action is not "up".  Fails when driver.quit() raises in the finally block.
C1_ReleaseOnEveryExit ==
    pc \in {"profile", "done", "aborted"} => wg # "up"

\* C2: when a later config starts processing a target that an earlier config
\* already processed, ms_count, page_number, last_successful_page and
\* retry_count continue from the values the earlier pass ended with.  Fails:
\* lines 305-309 assign them afresh for every config.
C2_CrawlStatePersists ==
    [][ (pc = "target" /\ pc' = "loop" /\ tgt \in DOMAIN left) =>
            /\ ms_count' = left[tgt].ms_count
            /\ page_number' = left[tgt].page_number
            /\ last_successful_page' = left[tgt].last_successful_page
            /\ retry_count' = left[tgt].retry_count ]_vars

\* C3: with a quota above zero ms_count never exceeds target_count, and each
\* step of the controller's loop leaves ms_count as it is or adds one to it,
\* adding one exactly when a domain is appended to microlinks.txt.
C3_QuotaMonotone ==
    /\ [](target_count > 0 => ms_count <= target_count)
    /\ [][ InLoop =>
             /\ ms_count' \in {ms_count, ms_count + 1}
             /\ ms_count' - ms_count = Len(microlinks') - Len(microlinks) ]_vars

\* C3 witness: a pass with quota 2 has accepted both domains.
C3_Witness ==
    /\ InLoop
    /\ target_count = 2
    /\ ms_count = 2
    /\ Len(microlinks) = 2

\* C4: no clean domain is handed to the MX lookup twice in a run.  Fails: a
\* domain is added to processed_domains only after it was found affiliated,
\* so a domain that is not affiliated is looked up at every encounter.
C4_ClassifiedAtMostOnce ==
    [][ last_mx' # None => last_mx' \notin classified ]_vars

\* C5: a step of the for loop on a website whose clean domain is already in
\* processed_domains makes no MX lookup, appends nothing and leaves ms_count
\* and the store unchanged.
C5_SeenIsSkipped ==
    [][ (pc = "sites" /\ clean_url(websites[widx]) \in processed_domains) =>
            /\ last_mx' = None
            /\ classified' = classified
            /\ ms_count' = ms_count
            /\ microlinks' = microlinks
            /\ processed_domains' = processed_domains ]_vars

\* C5 witness: under a later config than the first, the website just stepped
\* over was already in the store (no lookup was made for it), although the
\* string itself, "www.a", is not a member of the set.
C5_Witness ==
    /\ pc = "sites"
    /\ cfg > 1
    /\ widx > 1
    /\ last_mx = None
    /\ websites[widx - 1] \notin processed_domains
    /\ clean_url(websites[widx - 1]) \in processed_domains

\* C6: of the add_domain calls made so far for one clean domain, the first
\* returned True and every later one False.  Fails when the append raises
\* IOError: the first call returns False after adding the domain to the set.
C6_RecordOnceFirst ==
    \A d \in DOMAIN add_returns :
        /\ add_returns[d][1] = TRUE
        /\ \A i \in 2..Len(add_returns[d]) : add_returns[d][i] = FALSE

\* C7: when all threads that called add_domain for one clean domain have
\* returned and no append raised, exactly one of them returned True and the
\* domain stands in microlinks.txt exactly once.  Fails: two threads can both
\* pass the membership test of line 88 before either reaches line 89.
C7_ConcurrentRecordOnce ==
    \A d \in { wdom[w] : w \in Workers } \ {None} :
        LET callers == { w \in Workers : wdom[w] = d } IN
        ( /\ \A w \in callers : wpc[w] = "done"
          /\ \A w \in callers : wret[w] # "false_ioerror" )
        => /\ Cardinality({ w \in callers : wret[w] = "true" }) = 1
           /\ Occurrences(microlinks, d) = 1

\* C8: for each target, the controller goes back to the gap that begins at
\* the target's start page at most MAX_RETRIES times in the run.  Fails
\* because retry_count starts at zero again under every config (see C2).
C8_GapRetryBound ==
    \A t \in DOMAIN backtracks : backtracks[t] <= MAX_RETRIES

\* A measure of the work the loop has left: pages after the last successful
\* one, then retries left, then pages up to the cap, then websites left on
\* the current page, in lexicographic order, as one natural number.
LoopRank ==
    LET pages_after_success == MAX_PAGES + 1 - last_successful_page
        retries_left == MAX_RETRIES - retry_count
        pages_ahead == MAX_PAGES + 1 - page_number
        sites_left == IF pc = "sites" THEN Len(websites) - widx + 1 ELSE 0
    IN ((pages_after_success * (MAX_RETRIES + 1) + retries_left)
            * (MAX_PAGES + 2) + pages_ahead) * (MaxLinks + 1) + sites_left

\* C9: the controller's loop for a target ends after finitely many steps:
\* LoopRank is a natural number in the loop and every step that stays in the
\* loop (a page fetch, a gap retry, a website) makes it strictly smaller, so
\* a loop entered with rank r is left after at most r steps.
C9_LoopTerminates ==
    /\ [](InLoop => /\ retry_count \in 0..MAX_RETRIES
                     /\ page_number \in 0..(MAX_PAGES + 1)
                     /\ last_successful_page \in 0..MAX_PAGES
                     /\ LoopRank >= 0)
    /\ [][ (InLoop /\ InLoop') => LoopRank' < LoopRank ]_vars

\* C9 witness: the loop has ended after the controller went back to the
\* start-page gap MAX_RETRIES times.
C9_Witness ==
    /\ ~InLoop
    /\ report # "none"
    /\ Count(backtracks, 1) = MAX_RETRIES

\* C10: after the loop the report is "Satisfied" with ms_count >= quota, or
\* "Exhausted" with page_number beyond MAX_PAGES and ms_count < quota; and
\* no page beyond MAX_PAGES is fetched.
C10_LoopOutcome ==
    /\ fetched <= MAX_PAGES
    /\ report = "Satisfied" => ms_count >= target_count
    /\ report = "Exhausted" => page_number > MAX_PAGES /\ ms_count < target_count
    /\ (pc \in {"finally", "down", "done"} /\ ~exc) => report \in {"Satisfied", "Exhausted"}

\* C10 witness: a pass that fetched the last page and ended short of quota.
C10_Witness ==
    /\ report = "Exhausted"
    /\ fetched = MAX_PAGES
    /\ ms_count < target_count

\* C11: an exception raised while a target is processed (a quota that is not
\* a number) stays with that target: it does not reach the finally block of
\* the config and does not end the run.  Fails: main has no except clause, so
\* the exception leaves the loops over targets and configs.
C11_TargetErrorIsolated ==
    (exc /\ raised_at = "target") => pc \notin {"finally", "down", "aborted"}

\* C12: a directory fetch that raises inside scrape_company_websites costs
\* that page only: the page number goes into failed_pages, page_number moves
\* to the next page, the loop of the same target under the same config goes
\* on, no exception is pending and nothing else of the crawl state changes.
C12_FetchErrorPageOnly ==
    [][ (pc = "loop" /\ LoopGuard /\ fetch_raised') =>
            /\ failed_pages' = failed_pages \cup {page_number}
            /\ page_number' = page_number + 1
            /\ pc' = "loop"
            /\ tgt' = tgt
            /\ cfg' = cfg
            /\ ~exc'
            /\ UNCHANGED << ms_count, target_count, last_successful_page,
                            retry_count, processed_domains, microlinks, driver, wg >>
      ]_vars

\* C12 witness: the fetch of a page raised, the page is in failed_pages and
\* the loop is about to fetch the next page.
C12_Witness ==
    /\ pc = "loop"
    /\ fetch_raised
    /\ ~exc
    /\ fetched \in failed_pages
    /\ page_number = fetched + 1
    /\ LoopGuard

\* C13: check_mx_records and is_microsoft_affiliated return True or False
\* and raise nothing, for every argument (None and the empty string
\* included) and every outcome of the DNS query.
C13_ClassifyNeverRaises ==
    classify_call.stage = "done" =>
        /\ classify_call.outcome.raised = "none"
        /\ classify_call.outcome.ret \in BOOLEAN

\* C13 witness: check_mx_records returned although the query raised an
\* exception that is none of NoAnswer, NXDOMAIN and Timeout.
C13_Witness ==
    /\ classify_call.stage = "done"
    /\ classify_call.fn = "check_mx_records"
    /\ classify_call.mx.kind = "Exception"
    /\ classify_call.outcome = Return(FALSE)

\* C14: a for-loop step whose MX lookup timed out or failed otherwise makes
\* that one lookup, leaves ms_count, the store and microlinks.txt as they
\* were, raises nothing, and goes on: to the next website of the page, or
\* after the last website to the next page.
C14_LookupFailureNoCount ==
    [][ (pc = "sites" /\ lookup_failed') =>
            /\ last_mx' = clean_url(websites[widx])
            /\ ms_count' = ms_count
            /\ processed_domains' = processed_domains
            /\ microlinks' = microlinks
            /\ ~exc'
            /\ IF widx < Len(websites)
               THEN /\ pc' = "sites"
                    /\ widx' = widx + 1
                    /\ websites' = websites
                    /\ page_number' = page_number
               ELSE /\ pc' = "loop"
                    /\ page_number' = page_number + 1
      ]_vars

\* C14 witness: the lookup for the first website of a page failed and the
\* loop stands at the second website, with nothing counted.
C14_Witness ==
    /\ pc = "sites"
    /\ lookup_failed
    /\ widx = 2
    /\ ms_count = 0
    /\ microlinks = <<>>

\* C15: for an answer of MX records, check_mx_records returns True exactly
\* when one record, trailing dots removed and in lower case, equals a pattern
\* or ends with "." followed by a pattern.  Fails: line 112 also accepts a
\* record that has the pattern anywhere inside (`pattern in mx`).
C15_ExactOrSuffixMatch ==
    (classify_call.stage = "done" /\ classify_call.mx.kind = "answer") =>
        ( classify_call.outcome.ret <=>
            \E exchange \in classify_call.mx.records :
            \E pattern \in microsoft_patterns :
                \/ mx_string(exchange) = pattern
                \/ EndsWith(mx_string(exchange), <<Dot>> \o pattern) )

\* C16: clean_url applied to a stored domain (itself a result of clean_url)
\* gives that domain again.  Fails: the regular expressions of lines 76-77
\* remove one leading scheme and one leading "www." only, and strip('/')
\* runs after them.
C16_CleanUrlIdempotent ==
    \A d \in processed_domains : clean_url(d) = d

\* C17: for every argument that clean_url turns into the empty string,
\* is_domain_processed is False, every add_domain call made so far returned
\* False, and the empty string is neither in processed_domains nor a line of
\* microlinks.txt.  Fails: add_domain treats the empty string as a domain.
C17_EmptyNeverRecorded ==
    /\ \A d \in { x \in StoreInputs : clean_url(x) = <<>> } :
           ~is_domain_processed(processed_domains, d)
    /\ \A i \in 1..Len(Returns(add_returns, <<>>)) : add_returns[<<>>][i] = FALSE
    /\ <<>> \notin processed_domains
    /\ Occurrences(microlinks, <<>>) = 0

\* C18: in a run that starts with microlinks.txt of an earlier run in place,
\* a for-loop step on a website whose clean domain is a line of that file
\* makes no MX lookup, appends nothing and counts nothing.  Fails: __init__
\* starts with an empty processed_domains and no code reads the file.
C18_LogConsultedAtStartup ==
    [][ (pc = "sites" /\ Occurrences(microlinks, clean_url(websites[widx])) > 0) =>
            /\ last_mx' = None
            /\ microlinks' = microlinks
            /\ ms_count' = ms_count ]_vars

\* C19: at no time is more than one WireGuard interface up.  Fails: when
\* `wg-quick down` returns nonzero, bring_down_vpn logs it, forgets the
\* config and main brings up the next config while the interface of the
\* previous one is still up.
C19_AtMostOneTunnel ==
    tunnels <= 1

\* C20: the configs handed to bring_up_vpn are the entries of the list in
\* order, each once; a driver exists and targets are processed only under a
\* config whose bring_up_vpn succeeded; and the step in which bring_up_vpn
\* fails goes straight to the next config (or the end of the run), creating
\* no driver and touching no target.
C20_ProfilesInOrderNoRetry ==
    /\ [](\A i \in 1..Len(attempted) : attempted[i] = i)
    /\ []((driver \/ pc \in {"init_driver", "probe", "target", "loop", "sites"}) =>
            /\ wg = "up"
            /\ current_vpn_config_file = cfg
            /\ attempted[Len(attempted)] = cfg)
    /\ [][ (pc = "profile" /\ attempted' # attempted /\ wg' = "up_failed") =>
             /\ cfg' = cfg + 1
             /\ pc' = IF cfg = NumProfiles THEN "done" ELSE "profile"
             /\ driver' = FALSE
             /\ UNCHANGED << tgt, crawl_vars, store_vars, classified, exc >>
         ]_vars

\* C20 witness: bring_up_vpn failed for the first config and the run stands
\* before the second, without a driver.
C20_Witness ==
    /\ pc = "profile"
    /\ cfg = 2
    /\ attempted = <<1>>
    /\ wg = "up_failed"
    /\ current_vpn_config_file = 0
    /\ ~driver

\* C21: the step of the IP probe (lines 297-301) always leads to the loop
\* over targets with no exception pending, whether driver.get returned or
\* raised.  Fails: the probe stands inside the try statement without a
\* handler of its own, so its exception skips the targets and ends the run.
C21_ProbeAdvisory ==
    [][ pc = "probe" => (pc' = "target" /\ ~exc') ]_vars

\* C22: with no target read from urls.txt the run ends at once: bring_up_vpn
\* is never called, no interface is up, no driver exists, no page is fetched
\* and main stands at its start or at its end.
C22_NoTargetsNoRun ==
    urls_with_counts = <<>> =>
        /\ pc \in {"main", "done"}
        /\ attempted = <<>>
        /\ wg = "none"
        /\ tunnels = 0
        /\ current_vpn_config_file = 0
        /\ ~driver
        /\ fetched = 0
        /\ ~exc

\* C22 witness: main has returned on an empty list of targets.
C22_Witness ==
    /\ urls_with_counts = <<>>
    /\ pc = "done"

\* C23: every step that changes microlinks.txt is a for-loop step that
\* appends one line, the clean domain of the current website, which was in
\* neither processed_domains nor the file before, was looked up in this step
\* with result True, and is counted (ms_count goes up by one); ms_count goes
\* up only in such a step; and no line stands in the file twice.
C23_LogLinesAccepted ==
    /\ [](\A i, j \in 1..Len(microlinks) : microlinks[i] = microlinks[j] => i = j)
    /\ [][ microlinks' # microlinks =>
             /\ pc = "sites"
             /\ LET d == clean_url(websites[widx]) IN
                /\ microlinks' = Append(microlinks, d)
                /\ d \notin processed_domains
                /\ d \in processed_domains'
                /\ Occurrences(microlinks, d) = 0
                /\ last_mx' = d
                /\ lookup_ret'
                /\ ~lookup_failed'
             /\ ms_count' = ms_count + 1 ]_vars
    /\ [][ ms_count' > ms_count => microlinks' # microlinks ]_vars

\* C23 witness: under the second config the file has two lines, one of them
\* counted for the pass in progress.
C23_Witness ==
    /\ InLoop
    /\ cfg = 2
    /\ Len(microlinks) = 2
    /\ ms_count = 1
    /\ lookup_ret

\* C24: the quota is compared with ms_count only after the last website of
\* the page: a for-loop step at a website that is not the last one of the
\* page, and that raises nothing, stays in the for loop.  Fails: the break of
\* lines 338-339 leaves the page as soon as the quota is reached.
C24_SatisfiedAfterWholePage ==
    [][ (pc = "sites" /\ widx < Len(websites) /\ ~exc') => pc' = "sites" ]_vars

\* C25: a fetch that returns data on a page beyond last_successful_page + 1
\* while retry_count < MAX_RETRIES sets page_number to
\* last_successful_page + 1, adds exactly one to retry_count and leaves
\* ms_count and last_successful_page alone; every other fetch that returns
\* data makes its page the last successful one and resets retry_count to 0.
C25_BacktrackAndReset ==
    [][ (pc = "loop" /\ had_data') =>
          IF page_number > last_successful_page + 1 /\ retry_count < MAX_RETRIES
          THEN /\ page_number' = last_successful_page + 1
               /\ retry_count' = retry_count + 1
               /\ ms_count' = ms_count
               /\ last_successful_page' = last_successful_page
               /\ pc' = "loop"
          ELSE /\ last_successful_page' = page_number
               /\ retry_count' = 0
               /\ page_number' = page_number
               /\ pc' = "sites" ]_vars

\* C25 witness: the last retry has just been spent going back from a page
\* with data.
C25_Witness ==
    /\ pc = "loop"
    /\ had_data
    /\ retry_count = MAX_RETRIES
    /\ page_number = last_successful_page + 1
    /\ fetched > page_number

\* C26: when the start page s of a target keeps failing and later pages keep
\* yielding data, the pass goes back to s at most MAX_RETRIES times; with
\* retry_count = MAX_RETRIES a fetch that returns data is processed (its page
\* becomes the last successful one) instead of going back; from then on only
\* pages beyond last_successful_page are fetched, which never decreases, so s
\* is not fetched again; and s, in failed_pages since its first failure,
\* stays there and is in the failed pages reported at the end of the pass.
C26_GapGivenUpAndReported ==
    /\ [](InLoop => Count(backtracks, tgt) <= MAX_RETRIES)
    /\ []((InLoop /\ Count(backtracks, tgt) >= 1) =>
             urls_with_counts[tgt].start_page \in failed_pages)
    /\ []((pc = "loop" /\ LoopGuard) => page_number > last_successful_page)
    /\ []((report # "none" /\ pc \notin {"target", "loop", "sites"}
             /\ Count(backtracks, 1) >= 1) =>
             urls_with_counts[1].start_page \in failed_report)
    /\ [][ (pc = "loop" /\ had_data' /\ retry_count = MAX_RETRIES) =>
             /\ pc' = "sites"
             /\ last_successful_page' = page_number
             /\ fetched' = page_number ]_vars
    /\ [][ (InLoop /\ InLoop') =>
             /\ last_successful_page' >= last_successful_page
             /\ failed_pages \subseteq failed_pages' ]_vars
    /\ [][ failed_report' # failed_report => failed_report' = failed_pages ]_vars

\* C26 witness: a finished pass that went back to its start page s
\* MAX_RETRIES times, then processed s + 1 and fetched pages beyond it, and
\* reported s as failed.
C26_Witness ==
    /\ report # "none"
    /\ pc \notin {"target", "loop", "sites"}
    /\ Count(backtracks, 1) = MAX_RETRIES
    /\ urls_with_counts[1].start_page \in failed_report
    /\ urls_with_counts[1].start_page + 1 \notin failed_report
    /\ last_successful_page > urls_with_counts[1].start_page
    /\ fetched > urls_with_counts[1].start_page + 1

\* C27: a fetch that raises nothing and finds no company link puts its page
\* into failed_pages and moves to the next page, and the step after it does
\* not go back to that page or below it.  Fails: scrape_company_websites
\* returns [] for an empty page as for a failed fetch, so data on the next
\* page sends the loop back to the empty page.
C27_EmptyPageNoGap ==
    /\ [][ (pc = "loop" /\ LoopGuard /\ ~fetch_raised' /\ ~had_links') =>
             /\ page_number \in failed_pages'
             /\ page_number' = page_number + 1 ]_vars
    /\ [][ (pc = "loop" /\ ~fetch_raised /\ ~had_links
              /\ fetched \in failed_pages /\ page_number = fetched + 1) =>
             page_number' > fetched ]_vars

\* C28: a fetch that finds at least one company link makes its page
\* successful even when no company page yields a website: the page does not
\* enter failed_pages, and unless the step is a gap retry the page becomes
\* last_successful_page.  Fails: the list returned holds only the websites
\* found, so a page whose company pages yield none is handled like an empty
\* page.
C28_LinksMakeSuccess ==
    [][ (pc = "loop" /\ LoopGuard /\ had_links') =>
          /\ failed_pages' = failed_pages
          /\ \/ last_successful_page' = page_number
             \/ /\ ShouldBacktrack(page_number, last_successful_page, retry_count)
                /\ page_number' = last_successful_page + 1 ]_vars

\* C29: every for-loop step adds to ms_count exactly one when the website's
\* clean domain was not in processed_domains and the lookup returned True,
\* and nothing otherwise; page_number stays while the page is processed and
\* goes up by exactly one when the page ends with ms_count below the quota.
\* Fails when the append to microlinks.txt raises IOError: the domain is new
\* and affiliated, and is not counted.
C29_PageAddsNewAffiliated ==
    [][ pc = "sites" =>
          /\ ms_count' = ms_count + (IF lookup_ret' THEN 1 ELSE 0)
          /\ pc' = "sites" => page_number' = page_number
          /\ (pc' = "loop" /\ ms_count' < target_count) =>
                page_number' = page_number + 1 ]_vars

\* C30 as stated: in every state of the loop of a target,
\* start_page <= last_successful_page + 1 <= page_number.  Fails while the
\* websites of a page are processed and when the quota is reached: line 328
\* has set last_successful_page = page_number and line 347 has not run.
C30_PageOrderStrict ==
    InLoop =>
        /\ urls_with_counts[tgt].start_page <= last_successful_page + 1
        /\ last_successful_page + 1 <= page_number

\* C30 (amended): in every state of the loop of a target,
\* start_page <= last_successful_page + 1 <= page_number + 1 and
\* start_page <= page_number, and last_successful_page + 1 <= page_number
\* whenever the loop is about to fetch a page; a step that lowers page_number
\* sets it to last_successful_page + 1, not below start_page; and
\* last_successful_page never decreases.
C30_PageOrder ==
    /\ [](InLoop =>
            /\ urls_with_counts[tgt].start_page <= last_successful_page + 1
            /\ last_successful_page <= page_number
            /\ urls_with_counts[tgt].start_page <= page_number)
    /\ []((pc = "loop" /\ LoopGuard) => last_successful_page + 1 <= page_number)
    /\ [][ (InLoop /\ InLoop' /\ page_number' < page_number) =>
             /\ page_number' = last_successful_page + 1
             /\ page_number' >= urls_with_counts[tgt].start_page ]_vars
    /\ [][ (InLoop /\ InLoop') =>
             last_successful_page' >= last_successful_page ]_vars

\* C30 witness: after a successful page the loop went on, skipped a failing
\* page and has just gone back to it from a page with data.
C30_Witness ==
    /\ pc = "loop"
    /\ had_data
    /\ last_successful_page >= urls_with_counts[tgt].start_page
    /\ page_number = last_successful_page + 1
    /\ fetched = page_number + 1
    /\ retry_count = 1

\* The hrefs among the outcomes of a page's company links whose clean form is
\* not the empty string.
HrefsWithWebsite(entities) ==
    SelectSeq(entities, LAMBDA e : e \notin {None, NavError} /\ clean_url(e) # <<>>)

\* C31: scrape_company_websites on a directory page that loaded returns the
\* cleaned hrefs of its company pages, in the order of the links: a company
\* page whose navigation raised or that has no website element contributes
\* nothing and does not keep the links after it from being visited.
C31_EntityFailureSkipped ==
    (scrape_call.stage = "done" /\ scrape_call.fetch_ok) =>
        LET hrefs == HrefsWithWebsite(scrape_call.entities) IN
        scrape_call.websites = [i \in 1..Len(hrefs) |-> clean_url(hrefs[i])]

\* C31 witness: the first company page failed to load, the last one has a
\* website element, and its website is the only one returned.
C31_Witness ==
    /\ scrape_call.stage = "done"
    /\ scrape_call.fetch_ok
    /\ Len(scrape_call.entities) = MaxLinks
    /\ scrape_call.entities[1] = NavError
    /\ scrape_call.entities[MaxLinks] = <<"A", Slash>>
    /\ scrape_call.websites = << <<"a">> >>

\* C32: a page that was processed successfully is not among the failed
\* pages: in the loop last_successful_page is not in failed_pages, and after
\* the pass it is not in the failed pages reported.  Fails: line 343 adds a
\* failing page to failed_pages and nothing removes it when a gap retry
\* later finds data on it.
C32_ReportedNeverSucceeded ==
    /\ InLoop => last_successful_page \notin failed_pages
    /\ (report # "none" /\ pc \notin {"target", "loop", "sites"}) =>
           last_successful_page \notin failed_report

\* The pages a single pass can fetch.
PassPages == (MAX_PAGES - PageSpan + 1)..MAX_PAGES

\* C33: when the fetch of page p returned websites and the loop went back to
\* an earlier page instead of processing them, then later in the same pass
\* the websites of page p are processed (the for loop runs on page p), or
\* the quota is reached first.  Fails: the list is dropped by the continue of
\* line 326, and when page p fails or is empty on the next fetch the loop
\* moves past it.
C33_BacktrackLosesNoData ==
    \A p \in PassPages :
        (pc = "loop" /\ had_data /\ fetched = p /\ page_number < p)
            ~> ((pc = "sites" /\ page_number = p) \/ ms_count >= target_count)

\* C34: an add_domain call that appends nothing to microlinks.txt returns
\* False and leaves processed_domains as it was.  Fails: line 89 adds the
\* domain to the set before the append is tried, and the except clause does
\* not take it out again.
C34_FailedAppendLeavesStore ==
    [][ (pc = "store" /\ microlinks' = microlinks) =>
          /\ processed_domains' = processed_domains
          /\ \A d \in DOMAIN add_returns' :
                add_returns'[d] # Returns(add_returns, d) =>
                    add_returns'[d][Len(add_returns'[d])] = FALSE ]_vars

\* C35: self.driver is set only while current_vpn_config_file names the
\* config of the current iteration; the driver is created only at
\* initialize_driver, with that config recorded; the record is cleared only
\* when no driver is set; and the probe and every directory fetch happen with
\* a driver and with the config recorded.
C35_DriverInsideTunnel ==
    /\ [](driver => current_vpn_config_file = cfg)
    /\ []((pc \in {"probe", "target", "loop", "sites"}) =>
             (driver /\ current_vpn_config_file = cfg /\ wg = "up"))
    /\ [][ (~driver /\ driver') =>
             (pc = "init_driver" /\ current_vpn_config_file = cfg /\ wg = "up") ]_vars
    /\ [][ (current_vpn_config_file # 0 /\ current_vpn_config_file' = 0) =>
             (~driver /\ ~driver') ]_vars
    /\ [][ fetched' # fetched => (driver /\ current_vpn_config_file # 0) ]_vars

\* C35 witness: pages were fetched, the driver has been quit and
\* bring_down_vpn is about to run for the config still recorded.
C35_Witness ==
    /\ pc = "down"
    /\ ~driver
    /\ current_vpn_config_file = cfg
    /\ fetched > 0
    /\ ~exc

\* The positions of the history at which event holds.
DiagIndices(cmd, config) ==
    { i \in 1..Len(diag.log) : diag.log[i].cmd = cmd /\ diag.log[i].cfg = config }

\* C36: in both diagnostic scripts every config is brought up at most once,
\* in order; for a config that came up `wg-quick down` has been run exactly
\* once by the time the next config is brought up or the script has ended,
\* after the test of that config, whether the test succeeded or not, and
\* never more than once; for a config that failed to come up there is no
\* test and no `wg-quick down`.
C36_DiagBringDownOnce ==
    diag.stage = "run" =>
        \A c \in DiagConfigs :
            LET ups   == DiagIndices("up", c)
                tests == DiagIndices("test", c)
                downs == DiagIndices("down", c)
                later == { i \in 1..Len(diag.log) : diag.log[i].cfg > c }
                came_up == \E i \in ups : diag.log[i].ok
            IN
            /\ Cardinality(ups) <= 1
            /\ Cardinality(downs) <= 1
            /\ \A i \in ups, j \in later : i < j
            /\ ~came_up => (tests = {} /\ downs = {})
            /\ \A i \in downs : \E j \in ups, k \in tests : j < k /\ k < i
            /\ (came_up /\ (later # {} \/ diag.pc = "done")) =>
                   /\ Cardinality(downs) = 1
                   /\ \A i \in downs, j \in later : i < j

\* C36 witness: the script has ended; the first config came up, its test
\* raised and the tunnel was brought down; the second config failed to come
\* up; the last one came up and was brought down although wg-quick failed.
C36_Witness ==
    /\ diag.stage = "run"
    /\ diag.script = "dnb_playwright_troubleshoot"
    /\ diag.pc = "done"
    /\ \E i \in DiagIndices("test", 1) : ~diag.log[i].ok
    /\ DiagIndices("down", 1) # {}
    /\ \E i \in DiagIndices("up", 2) : ~diag.log[i].ok
    /\ \E i \in DiagIndices("down", MaxDiagConfigs) : ~diag.log[i].ok

====
